---- MODULE Spec2Model ----
\* Model of the abc9 script pass (passes/techmap/abc9.cc): option parsing in
\* Abc9Pass::execute, the staged script pre / map / post of Abc9Pass::script,
\* and the per-module mapping loop with its temp directories and its use of
\* the design's selection stack and scratchpad.
EXTENDS Integers, Sequences, FiniteSets, TLC

\* ------------------------------------------------------------------ bounds

\* Largest output count write_xaiger reports in write_xaiger.num_outputs.
MaxOutputs == 1

\* The design's modules, in the order Design::selected_modules() presents them.
ModuleOrder == <<"m1", "m2">>

Modules == {ModuleOrder[i] : i \in 1..Len(ModuleOrder)}

\* Values the two boolean scratchpad keys may hold before the pass runs.
ScratchValues == {"unset", "0", "1"}

\* Longest option list of the invocations that exercise option parsing.
MaxArgs == 2

\* Tokens of those option lists: the local flags, two value-taking flags, a
\* bare switch and a token that is no option.
ConfigTokens == {"-dff", "-nocleanup", "-box", "-lut", "-W", "-nomfs", "x"}

ConfigArgs ==
    {<<"abc9">> \o t : t \in UNION {[1..k -> ConfigTokens] : k \in 0..MaxArgs}}

\* Argument vectors of the modelled invocations (args[0] is the pass name).
RunArgs ==
    { <<"abc9">>,
      <<"abc9", "-dff">>,
      <<"abc9", "-nocleanup">>,
      <<"abc9", "-fast", "-box", "cells.box">>,
      <<"abc9", "-run", "pre:pre">>,
      <<"abc9", "-run", "map:map">>,
      <<"abc9", "-run", "post:post">> }

\* ----------------------------------------------------------------- state

VARIABLES
    args,             \* the argument vector of the invocation
    scratchpad,       \* design->scratchpad: abc9.dff, abc9.nocleanup, write_xaiger.num_outputs
    exe_cmd,          \* Abc9Pass::exe_cmd, as a token list
    dff_mode,         \* Abc9Pass::dff_mode
    cleanup,          \* Abc9Pass::cleanup
    box_file,         \* Abc9Pass::box_file
    argidx,           \* index of the first token left to extra_args
    run_from,         \* execute()'s local run_from
    run_to,           \* execute()'s local run_to
    help_mode,        \* ScriptPass::help_mode: the script is rendered, not run
    block_active,     \* ScriptPass::block_active
    pc,               \* position in execute() / script()
    step,             \* index of the next command of stage pre
    selection_stack,  \* design->selection_stack
    selected_modules, \* script()'s local vector selected_modules
    modidx,           \* position of the for loop in selected_modules
    tempdir_name,     \* the iteration's local tempdir_name
    num_outputs,      \* the iteration's local num_outputs
    fs,               \* temp directories and their files, as [dir, file] entries (file "." is the directory)
    made,             \* number of temp directories created so far
    modules,          \* per module: has processes, carries abc9_box_id
    design,           \* netlist state: scc ids, imported and reintegrated modules
    trace             \* history: commands run, notices logged, directories made and removed

vars ==
    <<args, scratchpad, exe_cmd, dff_mode, cleanup, box_file, argidx, run_from,
      run_to, help_mode, block_active, pc, step, selection_stack, selected_modules, modidx,
      tempdir_name, num_outputs, fs, made, modules, design, trace>>

passVars == <<exe_cmd, dff_mode, cleanup, box_file, argidx, run_from, run_to, help_mode>>

loopVars == <<selected_modules, modidx, tempdir_name, num_outputs>>

\* ------------------------------------------------------- option parsing

ValueFlags == {"-exe", "-script", "-D", "-lut", "-luts", "-W"}

\* The bare switches, with -dff and -nocleanup left in as lines 154-155 had them.
SwitchFlags_with_local == {"-fast", "-dff", "-nocleanup", "-showtmp", "-nomfs"}

SwitchFlags == {"-fast", "-showtmp", "-nomfs"}

\* Pass-object fields after clear_flags(): every field is reset.
clear_flags_stale ==
    [exe_cmd |-> exe_cmd, dff_mode |-> dff_mode, cleanup |-> cleanup, box_file |-> box_file]

clear_flags ==
    [exe_cmd |-> <<"abc9_exe">>, dff_mode |-> FALSE, cleanup |-> TRUE, box_file |-> ""]

\* RTLIL::Design::scratchpad_get_bool(key, default).
scratchpad_get_bool(value, default) ==
    IF value = "1" THEN TRUE ELSE IF value = "0" THEN FALSE ELSE default

\* RTLIL::Design::scratchpad_get_int(key), default 0; the value is <<>> or <<n>>.
scratchpad_get_int(value) ==
    IF value = <<>> THEN 0 ELSE value[1]

\* The option loop with "continue" where the code has "break" at line 172:
\* a token that is no option is passed over and parsing goes on.
RECURSIVE ParseArgs_skip(_, _, _)
ParseArgs_skip(a, i, f) ==
    IF i > Len(a) THEN [flags |-> f, argidx |-> i]
    ELSE IF a[i] \in {"-exe", "-script", "-D", "-lut", "-luts", "-W"} /\ i + 1 <= Len(a)
    THEN ParseArgs_skip(a, i + 2, [f EXCEPT !.exe_cmd = @ \o <<a[i], a[i + 1]>>])
    ELSE IF a[i] \in {"-fast", "-showtmp", "-nomfs"}
    THEN ParseArgs_skip(a, i + 1, [f EXCEPT !.exe_cmd = Append(@, a[i])])
    ELSE IF a[i] = "-dff"
    THEN ParseArgs_skip(a, i + 1, [f EXCEPT !.dff_mode = TRUE])
    ELSE IF a[i] = "-nocleanup"
    THEN ParseArgs_skip(a, i + 1, [f EXCEPT !.cleanup = FALSE])
    ELSE IF a[i] = "-box" /\ i + 1 <= Len(a)
    THEN ParseArgs_skip(a, i + 2, [f EXCEPT !.box_file = a[i + 1]])
    ELSE ParseArgs_skip(a, i + 1, f)

\* The option loop of execute(): i is argidx + 1 (sequences start at 1).
\* Yields the flags and the index of the first token left to extra_args.
RECURSIVE ParseArgs(_, _, _)
ParseArgs(a, i, f) ==
    IF i > Len(a) THEN [flags |-> f, argidx |-> i]
    ELSE IF a[i] \in ValueFlags /\ i + 1 <= Len(a)
    THEN ParseArgs(a, i + 2, [f EXCEPT !.exe_cmd = @ \o <<a[i], a[i + 1]>>])
    ELSE IF a[i] \in SwitchFlags
    THEN ParseArgs(a, i + 1, [f EXCEPT !.exe_cmd = Append(@, a[i])])
    ELSE IF a[i] = "-dff"
    THEN ParseArgs(a, i + 1, [f EXCEPT !.dff_mode = TRUE])
    ELSE IF a[i] = "-nocleanup"
    THEN ParseArgs(a, i + 1, [f EXCEPT !.cleanup = FALSE])
    ELSE IF a[i] = "-box" /\ i + 1 <= Len(a)
    THEN ParseArgs(a, i + 2, [f EXCEPT !.box_file = a[i + 1]])
    ELSE [flags |-> f, argidx |-> i]

\* The fallbacks with the negation of line 142 forgotten.
FlagsFromScratchpad_unnegated(sp) ==
    [clear_flags EXCEPT
        !.dff_mode = scratchpad_get_bool(sp.dff, clear_flags.dff_mode),
        !.cleanup = scratchpad_get_bool(sp.nocleanup, ~clear_flags.cleanup)]

\* Flags at the head of the option loop: reset, then the scratchpad fallbacks.
FlagsFromScratchpad(sp) ==
    [clear_flags EXCEPT
        !.dff_mode = scratchpad_get_bool(sp.dff, clear_flags.dff_mode),
        !.cleanup = ~scratchpad_get_bool(sp.nocleanup, ~clear_flags.cleanup)]

\* ------------------------------------------------------------ selections

\* RTLIL::Selection(true): everything selected.
EmptySelection_full ==
    [full_selection |-> TRUE, selected_modules |-> {}, selected_members |-> {}]

\* RTLIL::Selection(false): nothing selected.
EmptySelection ==
    [full_selection |-> FALSE, selected_modules |-> {}, selected_members |-> {}]

\* RTLIL::Selection::selected_module.
selected_module(sel, m) ==
    sel.full_selection \/ m \in sel.selected_modules \/ m \in sel.selected_members

\* RTLIL::Selection::selected_whole_module.
selected_whole_module(sel, m) ==
    sel.full_selection \/ m \in sel.selected_modules

\* RTLIL::Selection::select(module).
select(sel, m) ==
    IF ~sel.full_selection /\ m \notin sel.selected_modules
    THEN [sel EXCEPT !.selected_modules = @ \cup {m},
                     !.selected_members = @ \ {m}]
    ELSE sel

\* RTLIL::Design::selected_modules() on the active selection, in design order.
selected_modules_of(sel) ==
    SelectSeq(ModuleOrder, LAMBDA m : selected_module(sel, m))

\* Selections the caller may have set up: everything, or per module nothing,
\* some members, or the whole module.
CallerSelections ==
    {[full_selection |-> TRUE, selected_modules |-> {}, selected_members |-> {}]}
    \cup
    {[full_selection |-> FALSE, selected_modules |-> w, selected_members |-> p] :
        <<w, p>> \in {x \in (SUBSET Modules) \X (SUBSET Modules) : x[1] \cap x[2] = {}}}

\* ------------------------------------------------------- staged script

\* ScriptPass::check_label in execute mode: the new value of block_active.
check_label(label, from, to, active) ==
    IF from # "" /\ from = to THEN label = from
    ELSE IF label = to THEN FALSE
    ELSE IF label = from THEN TRUE
    ELSE active

\* Stage pre with the test of line 193 left out: -prep_dff is never run.
PreCmds_noprep(dff) ==
    << "abc9_ops -check",
       "scc -set_attr abc9_scc_id {}",
       IF dff THEN "abc9_ops -break_scc -prep_times -prep_holes -dff"
              ELSE "abc9_ops -break_scc -prep_times -prep_holes",
       "select -set abc9_holes A:abc9_holes",
       "flatten -wb @abc9_holes",
       "techmap @abc9_holes",
       "opt -purge @abc9_holes",
       "aigmap",
       "wbflip @abc9_holes" >>

\* The commands of stage pre, in order, for a given dff_mode.
PreCmds(dff) ==
    << "abc9_ops -check",
       "scc -set_attr abc9_scc_id {}",
       IF dff THEN "abc9_ops -break_scc -prep_times -prep_holes -dff"
              ELSE "abc9_ops -break_scc -prep_times -prep_holes",
       "select -set abc9_holes A:abc9_holes",
       "flatten -wb @abc9_holes",
       "techmap @abc9_holes" >>
    \o (IF dff THEN <<"abc9_ops -prep_dff">> ELSE <<>>)
    \o << "opt -purge @abc9_holes",
          "aigmap",
          "wbflip @abc9_holes" >>

\* The test of line 193 on dff_mode alone.
RunsPrepDff_dffonly(dff, help) == dff

\* Line 193: if (dff_mode || help_mode).
RunsPrepDff(dff, help) == dff \/ help

\* Stage pre as help mode shows it, lines 184-197 with help_mode set: each
\* entry is the command text and the note given to run().
HelpPreCmds(dff) ==
    << <<"abc9_ops -check", "">>,
       <<"scc -set_attr abc9_scc_id {}", "">>,
       <<"abc9_ops -break_scc -prep_times -prep_holes [-dff]", "(option for -dff)">>,
       <<"select -set abc9_holes A:abc9_holes", "">>,
       <<"flatten -wb @abc9_holes", "">>,
       <<"techmap @abc9_holes", "">> >>
    \o (IF RunsPrepDff(dff, TRUE) THEN << <<"abc9_ops -prep_dff", "(only if -dff)">> >> ELSE <<>>)
    \o << <<"opt -purge @abc9_holes", "">>,
          <<"aigmap", "">>,
          <<"wbflip @abc9_holes", "">> >>

\* Line 201 with the test left out: the loop is entered in help mode too.
RendersMapStage_never(help) == FALSE

\* Line 201: if (help_mode), stage map is shown and not run.
RendersMapStage(help) == help

\* Stage map as help mode shows it, lines 202-207.
HelpMapCmds ==
    << "foreach module in selection",
       "    abc9_ops -write_box [(-box value)|(null)] <abc-temp-dir>/input.box",
       "    write_xaiger -map <abc-temp-dir>/input.sym <abc-temp-dir>/input.xaig",
       "    abc9_exe [options] -cwd <abc-temp-dir> -box <abc-temp-dir>/input.box",
       "    read_aiger -xaiger -wideports -module_name <module-name>$abc9 -map <abc-temp-dir>/input.sym <abc-temp-dir>/output.aig",
       "    abc9_ops -reintegrate" >>

\* ScriptPass::check_label in help mode: the label is shown and the block is
\* active.
HelpLabel(label) == [stage |-> label, kind |-> "label", cmd |-> label, unit |-> "",
                     dir |-> [template |-> "", n |-> 0], opts |-> <<>>, ok |-> TRUE, n |-> 0]

\* ScriptPass::run in help mode: the command text and its note are shown.
HelpRun(stage, cmd, info) ==
    [stage |-> stage, kind |-> "render", cmd |-> cmd, unit |-> "",
     dir |-> [template |-> "", n |-> 0], opts |-> (IF info = "" THEN <<>> ELSE <<info>>),
     ok |-> TRUE, n |-> 0]

\* run(): Pass::call raises a fatal error when the command fails, which ends
\* the script; otherwise the script goes on with the next statement.
RunOutcome_swallow(ok, next) ==
    next

RunOutcome(ok, next) ==
    IF ok THEN next ELSE "aborted"

\* ------------------------------------------------------ per-module loop

\* The for loop over the local vector selected_modules has run out.
LoopDone_early(i, sel) ==
    i >= Len(sel)

LoopDone(i, sel) ==
    i > Len(sel)

\* mod->processes.size() > 0.
SkipsModule_never(mods, m) ==
    FALSE

SkipsModule(mods, m) ==
    mods[m].processes

\* The template handed to make_temp_dir.
TempDirTemplate(c) ==
    IF c THEN "/tmp/yosys-abc-XXXXXX" ELSE "_tmp_yosys-abc-XXXXXX"

\* if (num_outputs): ABC is called only when there is something to map.
CallsAbc_always(n) ==
    TRUE

CallsAbc(n) ==
    n # 0

\* if (cleanup): the temp directory is removed at the end of the iteration.
RemovesTempDir_inverted(c) ==
    ~c

RemovesTempDir_always(c) ==
    TRUE

RemovesTempDir(c) ==
    c

NoDir == [template |-> "", n |-> 0]

Top(stack) == stack[Len(stack)]

SetTop(stack, sel) == [stack EXCEPT ![Len(stack)] = sel]

\* One entry of the observable history of a run.
Ev(stage, kind, cmd, unit, dir, opts, ok) ==
    [stage |-> stage, kind |-> kind, cmd |-> cmd, unit |-> unit, dir |-> dir,
     opts |-> opts, ok |-> ok, n |-> 0]

\* The files a delegated command leaves in the temp directory it is given.
FilesWritten(cmd) ==
    IF cmd = "abc9_ops -write_box" THEN {"input.box"}
    ELSE IF cmd = "write_xaiger" THEN {"input.sym", "input.xaig"}
    ELSE IF cmd = "abc9_exe" THEN {"output.aig"}
    ELSE {}

\* The file system after cmd succeeded on directory d.
WriteFiles(files, d, cmd) ==
    files \cup {[dir |-> d, file |-> f] : f \in FilesWritten(cmd)}

\* ------------------------------------------------------------------ init

\* The statically allocated pass object is zero-initialised; the design holds
\* any modules, scratchpad values and caller selection.
InitObjects ==
    /\ scratchpad \in [dff : ScratchValues, nocleanup : ScratchValues, num_outputs : {<<>>}]
    /\ exe_cmd = <<>>
    /\ dff_mode = FALSE
    /\ cleanup = FALSE
    /\ box_file = ""
    /\ argidx = 0
    /\ run_from = ""
    /\ run_to = ""
    /\ help_mode = FALSE
    /\ block_active = FALSE
    /\ step = 1
    /\ selected_modules = <<>>
    /\ modidx = 1
    /\ tempdir_name = NoDir
    /\ num_outputs = 0
    /\ fs = {}
    /\ made = 0
    /\ design = [scc_id |-> FALSE, imported |-> {}, reintegrated |-> {}]
    /\ trace = <<>>

\* An invocation of the pass on any design.
Init ==
    /\ InitObjects
    /\ args \in RunArgs
    /\ pc = "execute"
    /\ selection_stack \in {<<s>> : s \in CallerSelections}
    /\ modules \in [Modules -> [processes : BOOLEAN, abc9_box_id : BOOLEAN]]

\* --------------------------------------------------------------- execute

\* execute(), lines 137-173: reset the flags, take the scratchpad fallbacks,
\* parse the options. run_from and run_to are declared and left empty.
Execute ==
    /\ pc = "execute"
    /\ LET r == ParseArgs(args, 2, FlagsFromScratchpad(scratchpad)) IN
        /\ exe_cmd' = r.flags.exe_cmd
        /\ dff_mode' = r.flags.dff_mode
        /\ cleanup' = r.flags.cleanup
        /\ box_file' = r.flags.box_file
        /\ argidx' = r.argidx
    /\ run_from' = ""
    /\ run_to' = ""
    /\ pc' = "extra_args"
    /\ UNCHANGED <<args, scratchpad, help_mode, block_active, step, selection_stack, loopVars,
                   fs, made, modules, design, trace>>

\* extra_args() and run_script(): the tokens left go to the selection
\* mechanism, which accepts them or ends the run with its own error; then
\* the script starts with block_active = run_from.empty().
ExtraArgs ==
    /\ pc = "extra_args"
    /\ \E accepted \in BOOLEAN :
        /\ argidx > Len(args) => accepted
        /\ IF accepted
           THEN /\ block_active' = (run_from = "")
                /\ pc' = "pre"
                /\ trace' = Append(trace,
                       Ev("args", "extra_args", "extra_args", "", NoDir, SubSeq(args, argidx, Len(args)), TRUE))
           ELSE /\ block_active' = block_active
                /\ pc' = "aborted"
                /\ trace' = Append(trace,
                       Ev("args", "fatal", "extra_args", "", NoDir, SubSeq(args, argidx, Len(args)), FALSE))
    /\ UNCHANGED <<args, scratchpad, passVars, step, selection_stack, loopVars,
                   fs, made, modules, design>>

\* ------------------------------------------------------------- stage pre

\* if (check_label("pre")).
CheckPre ==
    /\ pc = "pre"
    /\ block_active' = (IF help_mode THEN TRUE ELSE check_label("pre", run_from, run_to, block_active))
    /\ pc' = IF block_active' THEN "pre_run" ELSE "map"
    /\ step' = 1
    /\ trace' = IF help_mode THEN Append(trace, HelpLabel("pre")) ELSE trace
    /\ UNCHANGED <<args, scratchpad, passVars, selection_stack, loopVars, fs, made,
                   modules, design>>

\* The next run(...) of stage pre, lines 184-197.
RunPre ==
    /\ pc = "pre_run"
    /\ IF help_mode
       THEN LET shown == HelpPreCmds(dff_mode) IN
            /\ trace' = Append(trace, HelpRun("pre", shown[step][1], shown[step][2]))
            /\ pc' = IF step = Len(shown) THEN "map" ELSE "pre_run"
            /\ step' = step + 1
            /\ design' = design
       ELSE LET cmds == PreCmds(dff_mode) IN
            \E ok \in BOOLEAN :
             /\ trace' = Append(trace, Ev("pre", "run", cmds[step], "", NoDir, <<>>, ok))
             /\ pc' = RunOutcome(ok, IF step = Len(cmds) THEN "map" ELSE "pre_run")
             /\ step' = step + 1
             /\ design' = IF ok /\ cmds[step] = "scc -set_attr abc9_scc_id {}"
                          THEN [design EXCEPT !.scc_id = TRUE] ELSE design
    /\ UNCHANGED <<args, scratchpad, passVars, block_active, selection_stack, loopVars,
                   fs, made, modules>>

\* ------------------------------------------------------------- stage map

\* if (check_label("map")), then lines 210-211: take the selected modules and
\* push an empty selection.
CheckMap ==
    /\ pc = "map"
    /\ block_active' = (IF help_mode THEN TRUE ELSE check_label("map", run_from, run_to, block_active))
    /\ IF ~block_active'
       THEN /\ UNCHANGED <<selected_modules, selection_stack, modidx, trace>>
            /\ pc' = "post"
       ELSE IF RendersMapStage(help_mode)
       THEN /\ trace' = Append(trace, HelpLabel("map")) \o
                             [k \in DOMAIN HelpMapCmds |-> HelpRun("map", HelpMapCmds[k], "")]
            /\ UNCHANGED <<selected_modules, selection_stack, modidx>>
            /\ pc' = "post"
       ELSE /\ selected_modules' = selected_modules_of(Top(selection_stack))
            /\ selection_stack' = Append(selection_stack, EmptySelection)
            /\ modidx' = 1
            /\ pc' = "loop"
            /\ trace' = IF help_mode THEN Append(trace, HelpLabel("map")) ELSE trace
    /\ UNCHANGED <<args, scratchpad, passVars, step, tempdir_name, num_outputs, fs,
                   made, modules, design>>

\* Lines 214-217: a module with processes is skipped with a notice.
SkipModule ==
    /\ pc = "loop"
    /\ ~LoopDone(modidx, selected_modules)
    /\ SkipsModule(modules, selected_modules[modidx])
    /\ trace' = Append(trace, Ev("map", "log", "Skipping module as it contains processes.",
                                 selected_modules[modidx], NoDir, <<>>, TRUE))
    /\ modidx' = modidx + 1
    /\ UNCHANGED <<args, scratchpad, passVars, block_active, pc, step, selection_stack,
                   selected_modules, tempdir_name, num_outputs, fs, made, modules, design>>

\* Lines 218-223: the assertion on abc9_box_id, select(mod) on the active
\* selection, and the whole-module test on that same selection.
SelectModule ==
    /\ pc = "loop"
    /\ ~LoopDone(modidx, selected_modules)
    /\ ~SkipsModule(modules, selected_modules[modidx])
    /\ LET mod == selected_modules[modidx]
           sel == select(Top(selection_stack), mod)
       IN IF modules[mod].abc9_box_id
          THEN /\ pc' = "aborted"
               /\ trace' = Append(trace, Ev("map", "fatal", "log_assert", mod, NoDir, <<>>, FALSE))
               /\ UNCHANGED selection_stack
          ELSE /\ selection_stack' = SetTop(selection_stack, sel)
               /\ IF ~selected_whole_module(sel, mod)
                  THEN /\ pc' = "aborted"
                       /\ trace' = Append(trace,
                              Ev("map", "fatal", "Can't handle partially selected module!",
                                 mod, NoDir, <<>>, FALSE))
                  ELSE /\ pc' = "mktemp"
                       /\ trace' = trace
    /\ UNCHANGED <<args, scratchpad, passVars, block_active, step, loopVars, fs, made,
                   modules, design>>

\* Lines 225-228: make_temp_dir on the template; the name is a fresh one.
MakeTempDir ==
    /\ pc = "mktemp"
    /\ LET name == [template |-> TempDirTemplate(cleanup), n |-> made + 1] IN
        /\ tempdir_name' = name
        /\ fs' = fs \cup {[dir |-> name, file |-> "."]}
        /\ trace' = Append(trace, Ev("map", "mkdir", "make_temp_dir", selected_modules[modidx],
                                     name, <<>>, TRUE))
    /\ made' = made + 1
    /\ pc' = "write_box"
    /\ UNCHANGED <<args, scratchpad, passVars, block_active, step, selection_stack,
                   selected_modules, modidx, num_outputs, modules, design>>

\* Lines 230-233: abc9_ops -write_box <box_file or (null)> <dir>/input.box.
WriteBox ==
    /\ pc = "write_box"
    /\ \E ok \in BOOLEAN :
        /\ trace' = Append(trace, Ev("map", "run", "abc9_ops -write_box", selected_modules[modidx],
                                     tempdir_name, <<IF box_file = "" THEN "(null)" ELSE box_file>>, ok))
        /\ fs' = IF ok THEN WriteFiles(fs, tempdir_name, "abc9_ops -write_box") ELSE fs
        /\ pc' = RunOutcome(ok, "write_xaiger")
    /\ UNCHANGED <<args, scratchpad, passVars, block_active, step, selection_stack, loopVars,
                   made, modules, design>>

\* Line 234: write_xaiger -map <dir>/input.sym <dir>/input.xaig; the command
\* records the number of outputs in the scratchpad.
WriteXaiger ==
    /\ pc = "write_xaiger"
    /\ \E ok \in BOOLEAN, n \in 0..MaxOutputs :
        /\ ~ok => n = 0
        /\ trace' = Append(trace, [Ev("map", "run", "write_xaiger", selected_modules[modidx],
                                      tempdir_name, <<>>, ok) EXCEPT !.n = n])
        /\ fs' = IF ok THEN WriteFiles(fs, tempdir_name, "write_xaiger") ELSE fs
        /\ scratchpad' = IF ok THEN [scratchpad EXCEPT !.num_outputs = <<n>>] ELSE scratchpad
        /\ pc' = RunOutcome(ok, "num_outputs")
    /\ UNCHANGED <<args, passVars, block_active, step, selection_stack, loopVars,
                   made, modules, design>>

\* Lines 236-242 and 247-248: read the output count and decide.
ReadNumOutputs ==
    /\ pc = "num_outputs"
    /\ LET n == scratchpad_get_int(scratchpad.num_outputs)
           mod == selected_modules[modidx]
           extracted == Ev("map", "log", "Extracted a netlist network.", mod, tempdir_name, <<>>, TRUE)
           nothing == Ev("map", "log", "Don't call ABC as there is nothing to map.", mod,
                         tempdir_name, <<>>, TRUE)
       IN /\ num_outputs' = n
          /\ IF CallsAbc(n)
             THEN /\ pc' = "abc9_exe"
                  /\ trace' = Append(trace, extracted)
             ELSE /\ pc' = "cleanup"
                  /\ trace' = trace \o <<extracted, nothing>>
    /\ UNCHANGED <<args, scratchpad, passVars, block_active, step, selection_stack,
                   selected_modules, modidx, tempdir_name, fs, made, modules, design>>

\* The -module_name argument of line 244 without the suffix.
ModuleName_plain(mod) == <<mod>>

\* The -module_name argument of line 244: the module's name, then $abc9.
ModuleName(mod) == <<mod, "$abc9">>

\* Line 243: <exe_cmd> -cwd <dir> -box <dir>/input.box; ABC leaves output.aig.
Abc9Exe ==
    /\ pc = "abc9_exe"
    /\ \E ok \in BOOLEAN :
        /\ trace' = Append(trace, Ev("map", "run", "abc9_exe", selected_modules[modidx],
                                     tempdir_name, exe_cmd, ok))
        /\ fs' = IF ok THEN WriteFiles(fs, tempdir_name, "abc9_exe") ELSE fs
        /\ pc' = RunOutcome(ok, "read_aiger")
    /\ UNCHANGED <<args, scratchpad, passVars, block_active, step, selection_stack, loopVars,
                   made, modules, design>>

\* Line 244: read_aiger ... -module_name <mod>$abc9 -map <dir>/input.sym <dir>/output.aig.
ReadAiger ==
    /\ pc = "read_aiger"
    /\ \E ok \in BOOLEAN :
        /\ trace' = Append(trace, Ev("map", "run", "read_aiger", selected_modules[modidx],
                                     tempdir_name, ModuleName(selected_modules[modidx]), ok))
        /\ design' = IF ok THEN [design EXCEPT !.imported = @ \cup {selected_modules[modidx]}]
                     ELSE design
        /\ pc' = RunOutcome(ok, "reintegrate")
    /\ UNCHANGED <<args, scratchpad, passVars, block_active, step, selection_stack, loopVars,
                   fs, made, modules>>

\* Line 245: abc9_ops -reintegrate.
Reintegrate ==
    /\ pc = "reintegrate"
    /\ \E ok \in BOOLEAN :
        /\ trace' = Append(trace, Ev("map", "run", "abc9_ops -reintegrate", selected_modules[modidx],
                                     NoDir, <<>>, ok))
        /\ design' = IF ok
                     THEN [design EXCEPT !.imported = @ \ {selected_modules[modidx]},
                                         !.reintegrated = @ \cup {selected_modules[modidx]}]
                     ELSE design
        /\ pc' = RunOutcome(ok, "cleanup")
    /\ UNCHANGED <<args, scratchpad, passVars, block_active, step, selection_stack, loopVars,
                   fs, made, modules>>

\* Lines 250-255: remove the directory if cleanup is set, clear the active
\* selection's modules, and go to the next module.
Cleanup ==
    /\ pc = "cleanup"
    /\ IF RemovesTempDir(cleanup)
       THEN /\ fs' = {e \in fs : e.dir # tempdir_name}
            /\ trace' = trace \o
                   << Ev("map", "log", "Removing temp directory.", selected_modules[modidx],
                         tempdir_name, <<>>, TRUE),
                      Ev("map", "rmdir", "remove_directory", selected_modules[modidx],
                         tempdir_name, <<>>, TRUE) >>
       ELSE UNCHANGED <<fs, trace>>
    /\ selection_stack' = SetTop(selection_stack,
                                 [Top(selection_stack) EXCEPT !.selected_modules = {}])
    /\ modidx' = modidx + 1
    /\ tempdir_name' = NoDir
    /\ num_outputs' = 0
    /\ pc' = "loop"
    /\ UNCHANGED <<args, scratchpad, passVars, block_active, step, selected_modules,
                   made, modules, design>>

\* Line 258: the loop is over; pop the selection pushed at line 211.
LoopExit ==
    /\ pc = "loop"
    /\ LoopDone(modidx, selected_modules)
    /\ selection_stack' = SubSeq(selection_stack, 1, Len(selection_stack) - 1)
    /\ pc' = "post"
    /\ UNCHANGED <<args, scratchpad, passVars, block_active, step, loopVars, fs, made,
                   modules, design, trace>>

\* ------------------------------------------------------------ stage post

\* Lines 262-263: if (check_label("post")) run("abc9_ops -unbreak_scc").
Post ==
    /\ pc = "post"
    /\ block_active' = (IF help_mode THEN TRUE ELSE check_label("post", run_from, run_to, block_active))
    /\ IF help_mode
       THEN /\ trace' = trace \o <<HelpLabel("post"), HelpRun("post", "abc9_ops -unbreak_scc", "")>>
            /\ pc' = "done"
       ELSE IF block_active'
       THEN \E ok \in BOOLEAN :
             /\ trace' = Append(trace, Ev("post", "run", "abc9_ops -unbreak_scc", "", NoDir, <<>>, ok))
             /\ pc' = RunOutcome(ok, "done")
       ELSE /\ trace' = trace
            /\ pc' = "done"
    /\ UNCHANGED <<args, scratchpad, passVars, step, selection_stack, loopVars, fs, made,
                   modules, design>>

Next ==
    \/ Execute
    \/ ExtraArgs
    \/ CheckPre
    \/ RunPre
    \/ CheckMap
    \/ SkipModule
    \/ SelectModule
    \/ MakeTempDir
    \/ WriteBox
    \/ WriteXaiger
    \/ ReadNumOutputs
    \/ Abc9Exe
    \/ ReadAiger
    \/ Reintegrate
    \/ Cleanup
    \/ LoopExit
    \/ Post

Spec == Init /\ [][Next]_vars

\* ------------------------------------------------------------ help mode

\* help() is asked for on a pass object in any state an earlier run may have
\* left it in, with the design in any state.
InitHelp ==
    /\ InitObjects
    /\ args = <<"help", "abc9">>
    /\ pc = "help"
    /\ selection_stack \in {<<s>> : s \in CallerSelections}
    /\ modules = [m \in Modules |-> [processes |-> FALSE, abc9_box_id |-> FALSE]]

\* Line 118, ScriptPass::help_script(): reset the flags, set help_mode and
\* go through script().
HelpScript ==
    /\ pc = "help"
    /\ exe_cmd' = clear_flags.exe_cmd
    /\ dff_mode' = clear_flags.dff_mode
    /\ cleanup' = clear_flags.cleanup
    /\ box_file' = clear_flags.box_file
    /\ help_mode' = TRUE
    /\ block_active' = TRUE
    /\ pc' = "pre"
    /\ UNCHANGED <<args, scratchpad, argidx, run_from, run_to, step, selection_stack, loopVars,
                   fs, made, modules, design, trace>>

NextHelp ==
    \/ HelpScript
    \/ CheckPre
    \/ RunPre
    \/ CheckMap
    \/ Post

SpecHelp == InitHelp /\ [][NextHelp]_vars

\* ------------------------------------------- repeated invocations

\* An invocation with any short option list on a design with one module to
\* map and one module with processes, both selected.
InitConfig ==
    /\ InitObjects
    /\ args \in ConfigArgs
    /\ pc = "execute"
    /\ selection_stack = <<[full_selection |-> FALSE, selected_modules |-> Modules,
                            selected_members |-> {}]>>
    /\ modules = [m \in Modules |-> [processes |-> (m # ModuleOrder[1]), abc9_box_id |-> FALSE]]

\* Option lists of a repeated invocation: at most one token.
ReinvokeArgs == {a \in ConfigArgs : Len(a) <= 2}

\* The run is over and the same pass object is invoked again, with other
\* arguments, on a design in the same initial state and with the same
\* scratchpad settings.
\* The history starts with a mark that tells whether the object was left
\* with flags other than the reset ones.
Reinvoke ==
    /\ pc \in {"done", "aborted"}
    /\ args' \in ReinvokeArgs
    /\ scratchpad' = [scratchpad EXCEPT !.num_outputs = <<>>]
    /\ pc' = "execute"
    /\ block_active' = FALSE
    /\ step' = 1
    /\ selection_stack' = <<selection_stack[1]>>
    /\ selected_modules' = <<>>
    /\ modidx' = 1
    /\ tempdir_name' = NoDir
    /\ num_outputs' = 0
    /\ fs' = {}
    /\ made' = 0
    /\ design' = [scc_id |-> FALSE, imported |-> {}, reintegrated |-> {}]
    /\ trace' = << Ev("args", "reinvoke", "abc9", "", NoDir, <<>>,
                      [exe_cmd |-> exe_cmd, dff_mode |-> dff_mode, cleanup |-> cleanup,
                       box_file |-> box_file] = clear_flags) >>
    /\ UNCHANGED <<passVars, modules>>

NextConfig ==
    \/ Next
    \/ Reinvoke

SpecConfig == InitConfig /\ [][NextConfig]_vars

\* ---------------------------------------------------------- properties

\* The selection the pass was invoked on: the entry below the one stage map pushes.
CallerSelection == selection_stack[1]

Finished == pc \in {"done", "aborted"}

\* Stage map has run to the end of its loop.
MapCompleted == pc \in {"post", "done"} \/ \E i \in DOMAIN trace : trace[i].stage = "post"

IsRun(e, cmd) == e.kind = "run" /\ e.cmd = cmd

IsSkipNotice(e, m) ==
    e.kind = "log" /\ e.unit = m /\ e.cmd = "Skipping module as it contains processes."

Failed(e) == e.kind = "fatal" \/ (e.kind = "run" /\ ~e.ok)

\* The invocation asks for the single stage l with a start/end label pair.
RestrictedTo(l) ==
    \E i \in 2..(Len(args) - 1) :
        /\ args[i] = "-run"
        /\ args[i + 1] = (IF l = "pre" THEN "pre:pre" ELSE IF l = "map" THEN "map:map" ELSE "post:post")

\* The output count write_xaiger reported for module m (0 if it never ran for m).
Reported(m) ==
    IF \E i \in DOMAIN trace : IsRun(trace[i], "write_xaiger") /\ trace[i].unit = m /\ trace[i].ok
    THEN (CHOOSE e \in {trace[i] : i \in DOMAIN trace} :
              IsRun(e, "write_xaiger") /\ e.unit = m /\ e.ok).n
    ELSE 0

ExeCount(m) ==
    Cardinality({i \in DOMAIN trace : IsRun(trace[i], "abc9_exe") /\ trace[i].unit = m})

\* C1: a selected module with processes gets no temp directory and no
\* command (write_box, write_xaiger, abc9_exe, read_aiger, reintegrate); the
\* only entry of the history naming it is its skip notice, which is never
\* logged twice and has been logged once when the loop of stage map is over.
C1_ProcessModulesSkipped ==
    \A m \in Modules :
        modules[m].processes =>
            /\ \A i \in DOMAIN trace : trace[i].unit = m => IsSkipNotice(trace[i], m)
            /\ Cardinality({i \in DOMAIN trace : IsSkipNotice(trace[i], m)}) <= 1
            /\ (MapCompleted /\ selected_module(CallerSelection, m)) =>
                   Cardinality({i \in DOMAIN trace : IsSkipNotice(trace[i], m)}) = 1

C1_Witness ==
    /\ pc = "done"
    /\ \E m \in Modules :
        /\ modules[m].processes
        /\ \E i \in DOMAIN trace : IsSkipNotice(trace[i], m)
    /\ \E i \in DOMAIN trace : IsRun(trace[i], "abc9_exe")

\* C2: a module without processes that is only partially selected when the
\* pass is invoked never gets a temp directory and never has a command run
\* for it (the run aborts first).
C2_PartialSelectionAborts ==
    \A m \in Modules :
        (m \in CallerSelection.selected_members /\ ~CallerSelection.full_selection
         /\ ~modules[m].processes) =>
            \A i \in DOMAIN trace : trace[i].unit = m => trace[i].kind \notin {"mkdir", "run"}

\* C3: when the run has ended, normally or by a fatal condition, the
\* selection stack is as deep as it was before the run (one entry).
C3_SelectionStackBalanced ==
    Finished => Len(selection_stack) = 1

\* C4: with cleanup enabled no temp directory exists between two iterations
\* of the loop, after the loop, or after the run: each iteration removes its
\* own, whether ABC was called or not.
C4_CleanupLeavesNoTempDir ==
    (cleanup /\ pc \in {"loop", "post", "done"}) => fs = {}

C4_Witness ==
    /\ pc = "done"
    /\ cleanup
    /\ \E i, j \in DOMAIN trace :
        /\ trace[i].kind = "rmdir" /\ trace[j].kind = "rmdir"
        /\ ExeCount(trace[i].unit) = 1
        /\ ExeCount(trace[j].unit) = 0

\* C5: with cleanup disabled nothing is ever removed: every temp directory
\* made so far exists, and when the run is done the directory of every module
\* ABC was called for holds input.box, input.xaig, input.sym and output.aig.
C5_NoCleanupKeepsTempDirs ==
    (~cleanup /\ pc # "execute") =>
        /\ \A i \in DOMAIN trace : trace[i].kind # "rmdir"
        /\ \A i \in DOMAIN trace :
               trace[i].kind = "mkdir" => [dir |-> trace[i].dir, file |-> "."] \in fs
        /\ pc = "done" =>
               \A i \in DOMAIN trace :
                   IsRun(trace[i], "abc9_exe") =>
                       \A f \in {"input.box", "input.xaig", "input.sym", "output.aig"} :
                           [dir |-> trace[i].dir, file |-> f] \in fs

C5_Witness ==
    /\ pc = "done"
    /\ ~cleanup
    /\ \E i, j \in DOMAIN trace :
        /\ trace[i].kind = "mkdir" /\ trace[j].kind = "mkdir"
        /\ ExeCount(trace[i].unit) = 1
        /\ ExeCount(trace[j].unit) = 0
        /\ [dir |-> trace[i].dir, file |-> "output.aig"] \in fs
        /\ [dir |-> trace[j].dir, file |-> "."] \in fs

\* C6: in a run that completes, ABC is called once for every selected module
\* without processes whose export reported outputs and never for any other
\* module; a module with zero outputs was exported but is neither imported
\* nor reintegrated, and the modules after it are still processed.
C6_AbcCalledOncePerMappableModule ==
    pc = "done" =>
        \A m \in Modules :
            /\ ExeCount(m) =
                   (IF selected_module(CallerSelection, m) /\ ~modules[m].processes /\ Reported(m) # 0
                    THEN 1 ELSE 0)
            /\ (selected_module(CallerSelection, m) /\ ~modules[m].processes) =>
                   \E i \in DOMAIN trace :
                       IsRun(trace[i], "write_xaiger") /\ trace[i].unit = m /\ trace[i].ok
            /\ ExeCount(m) = 0 =>
                   /\ m \notin design.imported \cup design.reintegrated
                   /\ \A i \in DOMAIN trace :
                          trace[i].unit = m =>
                              ~IsRun(trace[i], "read_aiger") /\ ~IsRun(trace[i], "abc9_ops -reintegrate")

C6_Witness ==
    /\ pc = "done"
    /\ \E i, j \in DOMAIN trace :
        /\ i < j
        /\ IsRun(trace[i], "write_xaiger") /\ trace[i].ok /\ trace[i].n = 0
        /\ IsRun(trace[j], "abc9_exe") /\ trace[j].unit # trace[i].unit

StageNo(s) == IF s = "args" THEN 0 ELSE IF s = "pre" THEN 1 ELSE IF s = "map" THEN 2 ELSE 3

\* C7: the history never shows an operation of an earlier stage after one of
\* a later stage, and once abc9_ops -unbreak_scc has been issued every module
\* the caller selected has finished its iteration: the loop is past the last
\* module, no temp directory is in use, each module was skipped or exported,
\* and each module ABC was called for is reintegrated.
C7_StagesInOrder ==
    /\ \A i \in 1..(Len(trace) - 1) : StageNo(trace[i].stage) <= StageNo(trace[i + 1].stage)
    /\ (\E i \in DOMAIN trace : trace[i].stage = "post") =>
        /\ selected_modules = selected_modules_of(CallerSelection)
        /\ modidx > Len(selected_modules)
        /\ tempdir_name = NoDir
        /\ \A k \in 1..Len(selected_modules) :
               \E i \in DOMAIN trace :
                   /\ trace[i].unit = selected_modules[k]
                   /\ IsSkipNotice(trace[i], selected_modules[k]) \/ IsRun(trace[i], "write_xaiger")
        /\ \A m \in Modules : ExeCount(m) > 0 => m \in design.reintegrated

C7_Witness ==
    /\ pc = "done"
    /\ \E i, j, k \in DOMAIN trace :
        /\ trace[i].stage = "pre"
        /\ IsRun(trace[j], "abc9_ops -reintegrate") /\ trace[j].ok
        /\ IsRun(trace[k], "abc9_ops -unbreak_scc") /\ trace[k].ok
    /\ Cardinality(design.reintegrated) = 2

\* The commands run so far, in order.
RunCmds == [i \in 1..Len(SelectSeq(trace, LAMBDA e : e.kind = "run")) |->
               SelectSeq(trace, LAMBDA e : e.kind = "run")[i].cmd]

\* C8: an invocation restricted to one stage by a label pair, in which no
\* command failed, has at its end issued the commands of that stage and no
\* others (so that pre, map and post run one by one add up to one full run).
C8_StageSelectable ==
    \A l \in {"pre", "map", "post"} :
        (RestrictedTo(l) /\ Finished /\ \A i \in DOMAIN trace : ~(trace[i].kind = "run" /\ ~trace[i].ok)) =>
            /\ \A i \in DOMAIN trace : trace[i].kind = "run" => trace[i].stage = l
            /\ l = "pre" => RunCmds = PreCmds(dff_mode)
            /\ l = "post" => RunCmds = <<"abc9_ops -unbreak_scc">>

\* C9: an invocation restricted to stage map on a design that stage pre has
\* never processed runs no command of stage map for any module and does not
\* complete.
C9_MapOnlyFailsFast ==
    (RestrictedTo("map") /\ pc # "execute") =>
        /\ \A i \in DOMAIN trace : ~(trace[i].kind = "run" /\ trace[i].stage = "map")
        /\ pc # "done"

\* C10: a fatal condition is the last entry of the history and leaves the
\* run aborted (no operation of a later module or stage follows it), and every
\* module whose reintegrate command succeeded is still reintegrated.
C10_FatalStopsWithoutRollback ==
    /\ \A i \in DOMAIN trace : Failed(trace[i]) => (i = Len(trace) /\ pc = "aborted")
    /\ pc = "aborted" => (trace # <<>> /\ Failed(trace[Len(trace)]))
    /\ \A i \in DOMAIN trace :
           (IsRun(trace[i], "abc9_ops -reintegrate") /\ trace[i].ok) =>
               trace[i].unit \in design.reintegrated

C10_Witness ==
    /\ pc = "aborted"
    /\ design.reintegrated # {}
    /\ trace[Len(trace)].stage = "map"
    /\ trace[Len(trace)].unit \notin design.reintegrated

\* ------------------------------------------- configuration properties

\* Options as the documentation of the pass lists them: those that take a
\* value, and the bare ones.
TakesValue == {"-exe", "-script", "-D", "-lut", "-luts", "-W", "-box"}

Bare == {"-fast", "-showtmp", "-nomfs", "-dff", "-nocleanup"}

\* Positions of a at which an option starts, reading from position i: an
\* option that takes a value covers the next token too, and reading ends at
\* the first token that is no option or that lacks its value.
RECURSIVE OptionStarts(_, _)
OptionStarts(a, i) ==
    IF i > Len(a) THEN {}
    ELSE IF a[i] \in TakesValue /\ i < Len(a) THEN {i} \cup OptionStarts(a, i + 2)
    ELSE IF a[i] \in Bare THEN {i} \cup OptionStarts(a, i + 1)
    ELSE {}

\* The invocation gave option o on its command line.
Given(o) == \E i \in OptionStarts(args, 2) : args[i] = o

Parsed == pc # "execute"

\* C11: once the arguments are parsed, sequential mode is on if -dff was
\* given and otherwise exactly if scratchpad entry abc9.dff is true (false
\* when unset); cleanup is off if -nocleanup was given and otherwise exactly
\* if scratchpad entry abc9.nocleanup is true (cleanup on when unset).
C11_ScratchpadFallback ==
    Parsed =>
        /\ dff_mode = (IF Given("-dff") THEN TRUE ELSE scratchpad.dff = "1")
        /\ cleanup = (IF Given("-nocleanup") THEN FALSE ELSE scratchpad.nocleanup # "1")

\* The scratchpad asks for sequential mode and for keeping the workspace, the
\* command line is silent on both, and the run took both settings.
C11_Witness ==
    /\ Parsed
    /\ ~Given("-dff") /\ ~Given("-nocleanup")
    /\ scratchpad.dff = "1" /\ scratchpad.nocleanup = "1"
    /\ dff_mode /\ ~cleanup
    /\ \E i \in DOMAIN trace : IsRun(trace[i], "abc9_ops -prep_dff")

\* The tokens of a at the positions F, in the order of a.
TokensAt(a, F) ==
    [k \in 1..Cardinality(F) |-> a[CHOOSE i \in F : Cardinality({j \in F : j <= i}) = k]]

\* Positions of the command line taken by options of the sets vf (with
\* their value) and sw (bare).
ForwardedPositions(vf, sw) ==
    LET starts == OptionStarts(args, 2) IN
        {i \in starts : args[i] \in vf \cup sw} \cup {i + 1 : i \in {j \in starts : args[j] \in vf}}

\* The template is the base command followed by the options of vf and sw in
\* input order, and the local flags are set by their own options.
TemplateForwards(vf, sw) ==
    /\ exe_cmd = <<"abc9_exe">> \o TokensAt(args, ForwardedPositions(vf, sw))
    /\ Given("-dff") => dff_mode
    /\ Given("-nocleanup") => ~cleanup
    /\ box_file = (IF Given("-box")
                   THEN LET last == CHOOSE i \in OptionStarts(args, 2) :
                                        /\ args[i] = "-box"
                                        /\ \A j \in OptionStarts(args, 2) : args[j] = "-box" => j <= i
                        IN args[last + 1]
                   ELSE "")

\* C12 as stated: the template is the base command followed, in input order,
\* by exactly the options -exe, -script, -D, -lut, -luts with their value and
\* the bare switches -fast and -showtmp.
C12_TemplateAsStated ==
    Parsed => TemplateForwards({"-exe", "-script", "-D", "-lut", "-luts"}, {"-fast", "-showtmp"})

\* C12 amended: the forwarded options are -exe, -script, -D, -lut, -luts and
\* -W with their value and the bare switches -fast, -showtmp and -nomfs; the
\* template is the base command followed by exactly these, in input order.
\* -dff, -nocleanup and -box, where they are read as options, set their
\* local flag and add nothing to the template.
C12_TemplateForwardsOptions ==
    Parsed => TemplateForwards({"-exe", "-script", "-D", "-lut", "-luts", "-W"},
                               {"-fast", "-showtmp", "-nomfs"})

\* A command line that mixes a local option with a forwarded one: the
\* template holds the forwarded one only.
C12_Witness ==
    /\ Parsed
    /\ args = <<"abc9", "-dff", "-nomfs">>
    /\ exe_cmd = <<"abc9_exe", "-nomfs">>
    /\ dff_mode
    /\ scratchpad.dff # "1"

\* The command configuration of the pass object.
Config == [exe_cmd |-> exe_cmd, dff_mode |-> dff_mode, cleanup |-> cleanup, box_file |-> box_file]

\* The configuration a newly constructed pass object builds from the tokens
\* a and the scratchpad of this invocation.
FreshConfigOf(a) ==
    ParseArgs(a, 2, [exe_cmd |-> <<"abc9_exe">>,
                     dff_mode |-> (scratchpad.dff = "1"),
                     cleanup |-> (scratchpad.nocleanup # "1"),
                     box_file |-> ""]).flags

FreshConfig == FreshConfigOf(args)

\* C13: whatever invocations came before, the configuration of an invocation
\* is the one a fresh pass object builds from the same tokens and scratchpad,
\* and no step between the end of option parsing and the end of the run
\* changes it.
C13_ConfigDependsOnInvocationOnly ==
    /\ [](Parsed => Config = FreshConfig)
    /\ [][(Parsed /\ Parsed') => Config' = Config]_vars

\* A later invocation without options has run to its end with the reset
\* configuration, on a pass object that an earlier invocation had left with
\* another one.
C13_Witness ==
    /\ pc = "done"
    /\ trace[1].kind = "reinvoke" /\ ~trace[1].ok
    /\ args = <<"abc9">>
    /\ scratchpad.dff = "unset" /\ scratchpad.nocleanup = "unset"
    /\ Config = [exe_cmd |-> <<"abc9_exe">>, dff_mode |-> FALSE, cleanup |-> TRUE, box_file |-> ""]

\* Positions of the command line that an option or its value takes.
Covered ==
    LET starts == OptionStarts(args, 2) IN
        starts \cup {i + 1 : i \in {j \in starts : args[j] \in TakesValue}}

\* The tokens from the position where parsing stopped.
Leftover == SubSeq(args, argidx, Len(args))

\* C19: parsing stops at the first token that is no option, where a flag
\* that takes a value and stands last without one counts as no option; the
\* configuration is the one the tokens before that position give alone, and
\* the selection mechanism gets the tokens from that position on, unchanged.
C19_ParsingStopsAtFirstNonOption ==
    Parsed =>
        /\ argidx \in 2..(Len(args) + 1)
        /\ \A j \in 2..(argidx - 1) : j \in Covered
        /\ argidx <= Len(args) =>
               /\ args[argidx] \notin Bare
               /\ args[argidx] \in TakesValue => argidx = Len(args)
        /\ Config = FreshConfigOf(SubSeq(args, 1, argidx - 1))
        /\ \A k \in 1..Len(exe_cmd) : exe_cmd[k] \notin {args[j] : j \in argidx..Len(args)} \ {args[j] : j \in 2..(argidx - 1)}
        /\ pc # "extra_args" =>
               /\ Cardinality({i \in DOMAIN trace : trace[i].cmd = "extra_args"}) = 1
               /\ \A i \in DOMAIN trace : trace[i].cmd = "extra_args" => trace[i].opts = Leftover

\* A token that is no option stands before -dff: the run has ended without
\* sequential mode, and the selection mechanism was given both tokens.
C19_Witness ==
    /\ pc = "done"
    /\ args = <<"abc9", "x", "-dff">>
    /\ argidx = 2
    /\ ~dff_mode
    /\ \E i \in DOMAIN trace : trace[i].cmd = "extra_args" /\ trace[i].opts = <<"x", "-dff">>

\* ------------------------------------------- per-module properties

\* The operations of the iteration of module m, in the order of the history.
IterationOps(m) ==
    SelectSeq(trace, LAMBDA e : e.unit = m /\ e.kind \in {"mkdir", "run", "rmdir"})

\* The operations of a whole iteration whose export found n outputs.
ExpectedOps(n) ==
    <<"make_temp_dir", "abc9_ops -write_box", "write_xaiger">>
    \o (IF n # 0 THEN <<"abc9_exe", "read_aiger", "abc9_ops -reintegrate">> ELSE <<>>)
    \o (IF cleanup THEN <<"remove_directory">> ELSE <<>>)

\* The loop has gone past module m.
IterationOver(m) ==
    \E i \in DOMAIN selected_modules : selected_modules[i] = m /\ i < modidx

\* C14: the operations of one module's iteration are, in this order, create
\* workspace, write_box, write_xaiger, then with a non-zero output count the
\* external tool, read_aiger and reintegrate, then the release; all of them
\* that name a directory name the one this iteration created; the tool runs
\* with the invocation template, and the import names the module <unit>$abc9.
C14_IterationOrderAndWorkspace ==
    \A m \in Modules :
        LET ops == IterationOps(m)
            n == IF Len(ops) >= 3 THEN ops[3].n ELSE 0
            exp == ExpectedOps(n)
        IN /\ Len(ops) <= Len(exp)
           /\ \A k \in DOMAIN ops :
                  /\ ops[k].cmd = exp[k]
                  /\ ops[k].cmd # "abc9_ops -reintegrate" => ops[k].dir = ops[1].dir
                  /\ ops[k].cmd = "read_aiger" => ops[k].opts = <<m, "$abc9">>
                  /\ ops[k].cmd = "abc9_exe" => ops[k].opts = exe_cmd
           /\ (IterationOver(m) /\ ~modules[m].processes) => Len(ops) = Len(exp)
           /\ (pc \in {"write_box", "write_xaiger", "num_outputs", "abc9_exe", "read_aiger",
                        "reintegrate", "cleanup"} /\ selected_modules[modidx] = m) =>
                  (ops # <<>> /\ ops[1].dir = tempdir_name)

\* Both modules have gone through a whole iteration with the external tool,
\* each in a workspace of its own.
C14_Witness ==
    /\ pc = "done"
    /\ cleanup
    /\ \A m \in Modules : Len(IterationOps(m)) = 7
    /\ IterationOps(ModuleOrder[1])[1].dir # IterationOps(ModuleOrder[2])[1].dir

\* The temp directories that exist.
ExistingDirs == {e.dir : e \in fs}

\* The module whose iteration made directory d.
MadeFor(d) == {trace[i].unit : i \in {j \in DOMAIN trace : trace[j].kind = "mkdir" /\ trace[j].dir = d}}

\* The operations of module u among the first k entries of the history.
OpsBefore(u, k) ==
    SelectSeq(SubSeq(trace, 1, k), LAMBDA e : e.unit = u /\ e.kind \in {"mkdir", "run", "rmdir"})

\* A workspace is made only when every iteration begun before is over,
\* its release step included.
MadeAfterPreviousIteration ==
    \A i \in DOMAIN trace :
        trace[i].kind = "mkdir" =>
            \A u \in Modules \ {trace[i].unit} :
                LET before == OpsBefore(u, i - 1) IN
                    before # <<>> =>
                        /\ before = IterationOps(u)
                        /\ Len(before) = Len(ExpectedOps(before[3].n))

\* One workspace for every module that got past the checks of lines 214-223,
\* none for any other, and no directory made twice.
OneWorkspacePerMappedModule ==
    /\ \A m \in Modules :
           LET made_m == {i \in DOMAIN trace : trace[i].kind = "mkdir" /\ trace[i].unit = m} IN
               /\ Cardinality(made_m) <= 1
               /\ modules[m].processes => made_m = {}
               /\ (~modules[m].processes /\ IterationOver(m)) => Cardinality(made_m) = 1
               /\ (pc \in {"write_box", "write_xaiger", "num_outputs", "abc9_exe", "read_aiger",
                            "reintegrate", "cleanup"} /\ selected_modules[modidx] = m) =>
                      Cardinality(made_m) = 1
    /\ \A d \in ExistingDirs : Cardinality(MadeFor(d)) = 1

\* C15 as stated: at every point at most one temp workspace made by the run
\* exists, a workspace is made only after the previous iteration is over,
\* and exactly one is made per module that passes the checks.
C15_AtMostOneWorkspaceExists ==
    /\ Cardinality(ExistingDirs) <= 1
    /\ MadeAfterPreviousIteration
    /\ OneWorkspacePerMappedModule

\* C15 amended: with cleanup enabled at most one temp workspace exists at
\* every point; with cleanup disabled the workspaces of finished iterations
\* stay and at most one existing workspace belongs to an iteration that is
\* not over. A workspace is made only after the previous iteration is over,
\* and exactly one is made per module that passes the checks.
C15_WorkspacesDoNotOverlap ==
    /\ cleanup => Cardinality(ExistingDirs) <= 1
    /\ Cardinality({d \in ExistingDirs : \E u \in MadeFor(d) : ~IterationOver(u)}) <= 1
    /\ MadeAfterPreviousIteration
    /\ OneWorkspacePerMappedModule

\* With cleanup enabled the second module's iteration is under way in its
\* own workspace, the only one there is, after the first one's was removed.
C15_Witness ==
    /\ cleanup
    /\ pc = "abc9_exe"
    /\ modidx = 2
    /\ made = 2
    /\ ExistingDirs = {tempdir_name}
    /\ \E i \in DOMAIN trace : trace[i].kind = "rmdir" /\ trace[i].unit = selected_modules[1]

\* The export of the iteration with operations ops found nothing to map.
ZeroOutputs(ops) == Len(ops) >= 3 /\ ops[3].ok /\ ops[3].n = 0

\* The external tool, the import or the reintegration of the iteration failed.
ToolStepFailed(ops) ==
    \E k \in DOMAIN ops :
        /\ ops[k].cmd \in {"abc9_exe", "read_aiger", "abc9_ops -reintegrate"}
        /\ ~ops[k].ok

\* C16: with cleanup enabled, once the run has ended the workspace of every
\* module is removed whose export found zero outputs or whose external tool,
\* import or reintegration failed.
C16_CleanupWhateverTheOutcome ==
    (cleanup /\ Finished) =>
        \A m \in Modules :
            LET ops == IterationOps(m) IN
                (ZeroOutputs(ops) \/ ToolStepFailed(ops)) => ops[1].dir \notin ExistingDirs

\* ------------------------------------------- stage pre properties

\* The commands stage pre has run, in the order of the history.
PreRun ==
    LET evs == SelectSeq(trace, LAMBDA e : e.stage = "pre" /\ e.kind = "run") IN
        [k \in DOMAIN evs |-> evs[k].cmd]

\* Stage pre is past its last command.
PreOver == \E i \in DOMAIN trace : trace[i].stage \in {"map", "post"}

\* C17: stage pre runs abc9_ops -check; scc -set_attr abc9_scc_id;
\* abc9_ops -break_scc -prep_times -prep_holes (with -dff appended iff
\* sequential mode is set); select, flatten and techmap of the holes;
\* abc9_ops -prep_dff (iff sequential mode is set); opt -purge of the holes;
\* aigmap; wbflip of the holes, in this order. The commands of stages map
\* and post are the same whatever the flag.
C17_PreStageOrder ==
    LET seq == << "abc9_ops -check",
                  "scc -set_attr abc9_scc_id {}",
                  "abc9_ops -break_scc -prep_times -prep_holes -dff",
                  "select -set abc9_holes A:abc9_holes",
                  "flatten -wb @abc9_holes",
                  "techmap @abc9_holes",
                  "abc9_ops -prep_dff",
                  "opt -purge @abc9_holes",
                  "aigmap",
                  "wbflip @abc9_holes" >>
        comb == << "abc9_ops -check",
                   "scc -set_attr abc9_scc_id {}",
                   "abc9_ops -break_scc -prep_times -prep_holes",
                   "select -set abc9_holes A:abc9_holes",
                   "flatten -wb @abc9_holes",
                   "techmap @abc9_holes",
                   "opt -purge @abc9_holes",
                   "aigmap",
                   "wbflip @abc9_holes" >>
        exp == IF dff_mode THEN seq ELSE comb
    IN /\ Len(PreRun) <= Len(exp)
       /\ \A k \in DOMAIN PreRun : PreRun[k] = exp[k]
       /\ PreOver => PreRun = exp
       /\ \A i \in DOMAIN trace :
              /\ (trace[i].kind = "run" /\ trace[i].stage = "map") =>
                     trace[i].cmd \in {"abc9_ops -write_box", "write_xaiger", "abc9_exe",
                                       "read_aiger", "abc9_ops -reintegrate"}
              /\ (trace[i].kind = "run" /\ trace[i].stage = "post") =>
                     trace[i].cmd = "abc9_ops -unbreak_scc"

\* A run in sequential mode has gone through stage pre, -prep_dff included,
\* and through the other two stages.
C17_Witness ==
    /\ pc = "done"
    /\ dff_mode
    /\ Len(PreRun) = 10
    /\ PreRun[3] = "abc9_ops -break_scc -prep_times -prep_holes -dff"
    /\ PreRun[7] = "abc9_ops -prep_dff"
    /\ \E i \in DOMAIN trace : IsRun(trace[i], "abc9_exe")

\* ------------------------------------------- selection properties

\* The places of one iteration at which a command is about to run or has run.
InIteration ==
    pc \in {"mktemp", "write_box", "write_xaiger", "num_outputs", "abc9_exe", "read_aiger",
            "reintegrate", "cleanup"}

\* The selection stack at each place of the run: the pushed selection holds
\* the whole current module and nothing else inside an iteration, is empty
\* between iterations, and is gone outside the loop.
SelectionShape ==
    /\ InIteration =>
           /\ Len(selection_stack) = 2
           /\ selection_stack[2] = [full_selection |-> FALSE,
                                    selected_modules |-> {selected_modules[modidx]},
                                    selected_members |-> {}]
    /\ pc = "loop" =>
           /\ Len(selection_stack) = 2
           /\ selection_stack[2] = [full_selection |-> FALSE, selected_modules |-> {},
                                    selected_members |-> {}]
    /\ pc \in {"execute", "extra_args", "pre", "pre_run", "map", "post", "done"} =>
           Len(selection_stack) = 1

\* C20: while the commands of module U run, the selection pushed at loop
\* entry is on top of the caller's and holds the whole module U and nothing
\* else; between iterations, also after a skipped module, it is empty; after
\* the loop the caller's selection is the active one again; and no step of
\* the run changes the caller's selection.
C20_OnlyPushedSelectionModified ==
    /\ []SelectionShape
    /\ [][selection_stack'[1] = selection_stack[1]]_vars

\* The second module is being mapped after the first was skipped, under a
\* caller's selection of another shape than the one on top.
C20_Witness ==
    /\ pc = "abc9_exe"
    /\ modidx = 2
    /\ modules[selected_modules[1]].processes
    /\ selection_stack[1].selected_members = {selected_modules[1]}
    /\ selection_stack[1].selected_modules = {selected_modules[2]}
    /\ selection_stack[2].selected_modules = {selected_modules[2]}

\* ------------------------------------------- help mode properties

\* What help mode shows, in order, one line each.
Rendered == [k \in DOMAIN trace |-> trace[k].cmd]

\* What the help text of the script is: the three stages in order, with
\* the steps that depend on -dff among them.
HelpText ==
    << "pre",
       "abc9_ops -check",
       "scc -set_attr abc9_scc_id {}",
       "abc9_ops -break_scc -prep_times -prep_holes [-dff]",
       "select -set abc9_holes A:abc9_holes",
       "flatten -wb @abc9_holes",
       "techmap @abc9_holes",
       "abc9_ops -prep_dff",
       "opt -purge @abc9_holes",
       "aigmap",
       "wbflip @abc9_holes",
       "map",
       "foreach module in selection",
       "    abc9_ops -write_box [(-box value)|(null)] <abc-temp-dir>/input.box",
       "    write_xaiger -map <abc-temp-dir>/input.sym <abc-temp-dir>/input.xaig",
       "    abc9_exe [options] -cwd <abc-temp-dir> -box <abc-temp-dir>/input.box",
       "    read_aiger -xaiger -wideports -module_name <module-name>$abc9 -map <abc-temp-dir>/input.sym <abc-temp-dir>/output.aig",
       "    abc9_ops -reintegrate",
       "post",
       "abc9_ops -unbreak_scc" >>

\* Help mode only shows: every entry of the history is a label or a shown
\* command, they follow the help text, the steps that depend on -dff are
\* marked as such, and the script never enters the loop.
OnlyRendered ==
    /\ pc \in {"help", "pre", "pre_run", "map", "post", "done"}
    /\ \A i \in DOMAIN trace : trace[i].kind \in {"label", "render"}
    /\ Len(Rendered) <= Len(HelpText)
    /\ \A k \in DOMAIN Rendered : Rendered[k] = HelpText[k]
    /\ pc = "done" => Rendered = HelpText
    /\ \A i \in DOMAIN trace :
           /\ trace[i].cmd = "abc9_ops -break_scc -prep_times -prep_holes [-dff]" =>
                  trace[i].opts = <<"(option for -dff)">>
           /\ trace[i].cmd = "abc9_ops -prep_dff" => trace[i].opts = <<"(only if -dff)">>

\* C18: in help mode the three stages are only shown, in the order pre,
\* map, post, with the steps that depend on -dff shown as optional whatever
\* the flag is set to; no command is run, and no step changes the selection
\* stack, the temp directories, the design or the scratchpad.
C18_HelpModeHasNoSideEffects ==
    /\ []OnlyRendered
    /\ [][UNCHANGED <<selection_stack, fs, made, tempdir_name, design, modules, scratchpad,
                      num_outputs, selected_modules>>]_vars

\* The whole help text has been shown for a design with selected modules
\* and a scratchpad that asks for sequential mode; nothing was made.
C18_Witness ==
    /\ pc = "done"
    /\ help_mode
    /\ Len(trace) = 20
    /\ scratchpad.dff = "1"
    /\ selection_stack = <<[full_selection |-> FALSE, selected_modules |-> Modules,
                            selected_members |-> {}]>>
    /\ fs = {} /\ made = 0

====
